---- MODULE Spec2Model ----
(***************************************************************************)
(* Mi Scale data extractor: the stability detector and the measurement     *)
(* handler of MiScaleDataExtractor (extractor.py), the payload decoder     *)
(* (parser.py), the store (database.py) and the Flask control surface      *)
(* with its worker threads (app.py).                                       *)
(*                                                                         *)
(* Weights are kept in the scale's raw unit (1/200 kg): the decoder        *)
(* divides the 16-bit raw value by 200, which is injective and monotone,   *)
(* so every comparison of weights is a comparison of raw values.  Time is  *)
(* in whole seconds.                                                       *)
(***************************************************************************)
EXTENDS Integers, Sequences, FiniteSets, TLC

VARIABLES
    now,                 \* datetime.now(), in seconds
    pc,                  \* position of each worker thread (run_async)
    is_running,          \* MiScaleDataExtractor.is_running, per instance
    recent_readings,     \* MiScaleDataExtractor.recent_readings
    reading_timestamps,  \* MiScaleDataExtractor.reading_timestamps
    stable_start_time,   \* MiScaleDataExtractor.stable_start_time (<<>> is None)
    measurement_stored,  \* MiScaleDataExtractor.measurement_stored
    extractor_thread,    \* app.extractor_thread (<<>> is None)
    extractor_instance,  \* app.extractor_instance, the module global
    extractor_loop,      \* app.extractor_loop, the module global
    current_status,      \* app.current_status
    status_queue,        \* app.status_queue: the levels of the queued events
    measurements,        \* rows of the measurements table, oldest first
    response,            \* the last HTTP response of the control surface
    detector_result,     \* what _is_measurement_stable returned in the last handler call
    store_calls,         \* number of store_measurement calls made by each session
    stop_requested,      \* sessions that were current when a stop was accepted
    scenario_pos,        \* how many leading ingests of a session follow Scenario
    transport_lost,      \* sessions whose BLE connection to the scale has dropped
    call_args,           \* arguments of a direct call of parse_measurement_data
    call_result          \* what that call returned (<<>> before it returns)

vars == <<now, pc, is_running, recent_readings, reading_timestamps,
          stable_start_time, measurement_stored, extractor_thread,
          extractor_instance, extractor_loop, current_status, status_queue,
          measurements, response, detector_result, store_calls,
          stop_requested, scenario_pos, transport_lost, call_args, call_result>>

envVars == <<transport_lost, call_args, call_result>>

----------------------------------------------------------------------------
(* Bounds of the model.  QueueMaxSize stands for the capacity of
   status_queue (100 in app.py); MaxStoreFailures is the number of store
   writes the environment lets fail in one session; the MaxTime bounds are
   the last second of each specification's clock. *)

MaxSessions == 2
MaxTime == 3
AppMaxTime == 3
ScenarioMaxTime == 7
QueueMaxSize == 4
MaxStoreFailures == 1

(* Program constants.  config.py reads the three detector settings from the
   environment; the values are those of the drift example (3 readings,
   0.1 kg, 3 s).  The tolerance is in raw units: 0.1 kg * 200. *)

STABLE_READINGS_REQUIRED == 3
WEIGHT_TOLERANCE_RAW == 20
MIN_STABLE_DURATION_SECONDS == 3
WEIGHT_DIVISOR == 200
MIN_PAYLOAD_LENGTH == 13
AGE == 25
HEIGHT_CM == 178

Sessions == 1..MaxSessions
None == <<>>
Some(x) == <<x>>

----------------------------------------------------------------------------
(* parser.py *)

\* A notification payload of n bytes carrying raw weight w in bytes 11-12 and
\* impedance i in bytes 9-10 (0-based), both little-endian; shorter payloads
\* are the same bytes truncated.
Payload(n, w, i) ==
    [k \in 1..n |-> CASE k = 10 -> i % 256
                      [] k = 11 -> i \div 256
                      [] k = 12 -> w % 256
                      [] k = 13 -> w \div 256
                      [] OTHER -> 0]

\* raw_data[12] and raw_data[11], raw_data[10] and raw_data[9] raise IndexError
\* on a buffer of fewer than 13 bytes.
ParseRaises(raw_data) == Len(raw_data) < MIN_PAYLOAD_LENGTH

\* Mutant: the two-byte fields are read high byte first
parse_measurement_data_BigEndian(raw_data) ==
    [weight    |-> raw_data[12] * 256 + raw_data[13],
     impedance |-> raw_data[10] * 256 + raw_data[11]]

\* weight is returned in raw units: weight_kg = weight / WEIGHT_DIVISOR
parse_measurement_data(raw_data) ==
    [weight    |-> raw_data[13] * 256 + raw_data[12],
     impedance |-> raw_data[11] * 256 + raw_data[10]]

----------------------------------------------------------------------------
(* calculations.py.  The three metrics are kept as exact fractions
   num/den in lowest terms.  The code computes them in IEEE doubles from
   the same operands; a double result is within 1e-11 of the fraction, far
   below the hundredths in which the metrics are compared. *)

RECURSIVE GCD(_, _)
GCD(a, b) == IF b = 0 THEN a ELSE GCD(b, a % b)

Abs(x) == IF x < 0 THEN -x ELSE x

Fraction(num, den) ==
    LET g == GCD(Abs(num), den) IN [num |-> num \div g, den |-> den \div g]

\* str.lower() on the genders a request can carry
Lower(g) == IF g = "Female" THEN "female" ELSE g

\* weight / (height_m * height_m), with weight = raw / 200 kg and
\* height_m = height_cm / 100
calculate_bmi(weight, height_cm) ==
    Fraction(weight * 100 * 100, WEIGHT_DIVISOR * height_cm * height_cm)

\* Mutant: the female constant is used for every gender
calculate_bmr_IgnoresGender(weight, height_cm, age, gender) ==
    Fraction(10 * weight * 100 + 625 * height_cm * WEIGHT_DIVISOR
                 + (-5 * age - 161) * WEIGHT_DIVISOR * 100,
             WEIGHT_DIVISOR * 100)

\* 10 * weight + 6.25 * height_cm - 5 * age + 5 (male) or - 161 (otherwise)
calculate_bmr(weight, height_cm, age, gender) ==
    Fraction(10 * weight * 100 + 625 * height_cm * WEIGHT_DIVISOR
                 + (-5 * age + (IF Lower(gender) = "male" THEN 5 ELSE -161))
                       * WEIGHT_DIVISOR * 100,
             WEIGHT_DIVISOR * 100)

\* 1.20 * bmi + 0.23 * age - 16.2 (male) or - 5.4 (otherwise)
estimate_body_fat_percentage(bmi, age, gender) ==
    Fraction(120 * bmi.num
                 + (23 * age - (IF Lower(gender) = "male" THEN 1620 ELSE 540))
                       * bmi.den,
             100 * bmi.den)

\* parser.py lines 16-29: the record parse_measurement_data returns for a
\* decoded weight and impedance
MeasurementRecord(measurement, age, height_cm, gender) ==
    LET bmi == calculate_bmi(measurement.weight, height_cm)
    IN  [weight    |-> measurement.weight,
         impedance |-> measurement.impedance,
         bmi       |-> bmi,
         bmr       |-> calculate_bmr(measurement.weight, height_cm, age, gender),
         body_fat  |-> estimate_body_fat_percentage(bmi, age, gender),
         age       |-> age,
         height_cm |-> height_cm,
         gender    |-> gender]

----------------------------------------------------------------------------
(* extractor.py: the stability detector *)

RECURSIVE SeqMin(_), SeqMax(_)
SeqMin(s) == IF Len(s) = 1 THEN s[1]
             ELSE LET m == SeqMin(Tail(s)) IN IF s[1] < m THEN s[1] ELSE m
SeqMax(s) == IF Len(s) = 1 THEN s[1]
             ELSE LET m == SeqMax(Tail(s)) IN IF s[1] > m THEN s[1] ELSE m

\* (max/200 - min/200) <= 0.1 in IEEE double arithmetic.  A raw difference
\* below 20 is below 0.1 and one above 20 is above it; at exactly 20 the
\* subtraction rounds either way, depending on the operands:
\*   14020/200 - 14000/200 = 0.09999999999999432  (<= 0.1)
\*   14040/200 - 14020/200 = 0.10000000000000853  (>  0.1)
RoundsAboveTolerance == {<<14020, 14040>>}

is_weight_stable(min_weight, max_weight) ==
    IF max_weight - min_weight = WEIGHT_TOLERANCE_RAW
    THEN <<min_weight, max_weight>> \notin RoundsAboveTolerance
    ELSE max_weight - min_weight < WEIGHT_TOLERANCE_RAW

\* Mutant: nothing is evicted from the window
WindowAppend_NoEviction(window, x) == Append(window, x)

WindowAppend(window, x) ==
    LET appended == Append(window, x)
    IN  IF Len(appended) > STABLE_READINGS_REQUIRED THEN Tail(appended) ELSE appended

\* Mutant: a drifting window leaves the clock as it is
ClockAfter_KeepsOnDrift(readings, clock, current_time) ==
    IF Len(readings) < STABLE_READINGS_REQUIRED THEN clock
    ELSE IF ~is_weight_stable(SeqMin(readings), SeqMax(readings)) THEN clock
    ELSE IF clock = None THEN Some(current_time)
    ELSE clock

\* Mutant: the clock is started before the window is full
ClockAfter_SetsOnPartialWindow(readings, clock, current_time) ==
    IF ~is_weight_stable(SeqMin(readings), SeqMax(readings)) THEN None
    ELSE IF clock = None THEN Some(current_time)
    ELSE clock

\* The clock after the checks of lines 52-65, given the window after the append
ClockAfter(readings, clock, current_time) ==
    IF Len(readings) < STABLE_READINGS_REQUIRED THEN clock
    ELSE IF ~is_weight_stable(SeqMin(readings), SeqMax(readings)) THEN None
    ELSE IF clock = None THEN Some(current_time)
    ELSE clock

\* Mutant: the elapsed stable duration is not checked
ResultAfter_NoDurationCheck(readings, clock, current_time) ==
    /\ Len(readings) >= STABLE_READINGS_REQUIRED
    /\ is_weight_stable(SeqMin(readings), SeqMax(readings))
    /\ clock # None

\* The return value of lines 52-69
ResultAfter(readings, clock, current_time) ==
    /\ Len(readings) >= STABLE_READINGS_REQUIRED
    /\ is_weight_stable(SeqMin(readings), SeqMax(readings))
    /\ clock # None
    /\ current_time - clock[1] >= MIN_STABLE_DURATION_SECONDS

\* _is_measurement_stable(weight) on the state (readings, timestamps, clock)
IsMeasurementStable(readings, timestamps, clock, weight, current_time) ==
    LET rs == WindowAppend(readings, weight)
        ts == WindowAppend(timestamps, current_time)
    IN  [recent_readings    |-> rs,
         reading_timestamps |-> ts,
         stable_start_time  |-> ClockAfter(rs, clock, current_time),
         result             |-> ResultAfter(rs, clock, current_time)]

----------------------------------------------------------------------------
(* app.py: the status channel *)

\* status_callback: put_nowait, queue.Full is swallowed
status_callback(queue, level) ==
    IF Len(queue) < QueueMaxSize THEN Append(queue, level) ELSE queue

RECURSIVE EmitAll(_, _)
EmitAll(queue, levels) ==
    IF levels = <<>> THEN queue
    ELSE EmitAll(status_callback(queue, Head(levels)), Tail(levels))

----------------------------------------------------------------------------
(* Inputs *)

\* Raw weights a notification may carry: 70.00, 70.10 and 70.20 kg
RawWeights == {14000, 14020, 14040}
AppRawWeights == {14004}
\* The raw weights of the drift example: 70.00, 70.02, 70.05 and 75.00 kg
ScenarioRawWeights == {14000, 14004, 14010, 15000}
Impedances == {500}
PayloadLengths == {0, 12, 13}
AppPayloads ==
    {Payload(MIN_PAYLOAD_LENGTH, w, i) : w \in AppRawWeights, i \in Impedances}

Payloads(weights) ==
    {Payload(n, w, i) : n \in PayloadLengths, w \in weights, i \in Impedances}

\* Direct calls of parse_measurement_data: raw values at the byte boundaries
\* and the 70.00 kg / 500 ohm example, with the profiles of a session
ParserWeights == {0, 255, 256, 14000, 65535}
ParserImpedances == {0, 255, 256, 500, 65535}
ParserProfiles ==
    {[age |-> a, height_cm |-> HEIGHT_CM, gender |-> g] :
        a \in {AGE, 30}, g \in {"male", "Female"}}
ParserInputs ==
    {[raw_data |-> Payload(MIN_PAYLOAD_LENGTH, w, i), profile |-> p] :
        w \in ParserWeights, i \in ParserImpedances, p \in ParserProfiles}

\* Well-formed payloads that differ in impedance as well as in weight
StoreImpedances == {500, 510}
StorePayloads ==
    {Payload(MIN_PAYLOAD_LENGTH, w, i) : w \in RawWeights, i \in StoreImpedances}

\* The sample sequence of the drift example: <<raw weight, time of ingest>>
Scenario == << <<14000, 0>>, <<14010, 0>>, <<14004, 0>>, <<15000, 1>>,
               <<14000, 2>>, <<14000, 3>>, <<14000, 4>> >>
ScenarioOff == Len(Scenario) + 1

ScenarioNext(pos, weight, current_time) ==
    IF pos = Len(Scenario) THEN pos
    ELSE IF pos < Len(Scenario) /\ Scenario[pos + 1] = <<weight, current_time>>
         THEN pos + 1
         ELSE ScenarioOff

----------------------------------------------------------------------------
(* Initial state: the module globals of app.py, no worker thread yet *)

ProgramInit ==
    /\ now = 0
    /\ pc = [s \in Sessions |-> "unborn"]
    /\ is_running = [s \in Sessions |-> FALSE]
    /\ recent_readings = [s \in Sessions |-> <<>>]
    /\ reading_timestamps = [s \in Sessions |-> <<>>]
    /\ stable_start_time = [s \in Sessions |-> None]
    /\ measurement_stored = [s \in Sessions |-> FALSE]
    /\ extractor_thread = None
    /\ extractor_instance = None
    /\ extractor_loop = None
    /\ current_status = [is_running |-> FALSE, last_measurement |-> None, error |-> None]
    /\ status_queue = <<>>
    /\ measurements = <<>>
    /\ response = <<"none", 0>>
    /\ detector_result = [s \in Sessions |-> "NotCalled"]
    /\ store_calls = [s \in Sessions |-> 0]
    /\ stop_requested = {}
    /\ scenario_pos = [s \in Sessions |-> 0]
    /\ transport_lost = {}

Init ==
    /\ ProgramInit
    /\ call_args = None
    /\ call_result = None

appVars == <<extractor_thread, extractor_instance, extractor_loop, response,
             stop_requested>>
detectorVars == <<recent_readings, reading_timestamps, stable_start_time,
                  scenario_pos>>
sessionVars == <<is_running, recent_readings, reading_timestamps,
                 stable_start_time, measurement_stored, detector_result,
                 store_calls, scenario_pos>>

----------------------------------------------------------------------------
(* database.py *)

\* Mutant: the impedance column is not filled from the argument
store_measurement_LosesImpedance(rows, weight, impedance, store_ok) ==
    IF store_ok
    THEN Append(rows, [timestamp |-> now, weight |-> weight, impedance |-> 0])
    ELSE rows

\* store_measurement: the row is inserted and True returned, or the write
\* raises, nothing is inserted and False is returned
store_measurement(rows, weight, impedance, store_ok) ==
    IF store_ok
    THEN Append(rows, [timestamp |-> now, weight |-> weight, impedance |-> impedance])
    ELSE rows

\* get_recent_measurements(limit=1)
get_recent_measurements(rows) ==
    IF rows = <<>> THEN <<>> ELSE <<rows[Len(rows)]>>

----------------------------------------------------------------------------
(* extractor.py: _handle_measurement *)

\* Mutant: the handler has no guard on the stored flag
HandlerIgnores_Never(s) == FALSE

\* Lines 76-77: the handler returns at once when the measurement is stored
HandlerIgnores(s) == measurement_stored[s]

\* Mutant: the running flag is left set after a successful write
AfterStore_KeepsRunning(s, success) ==
    IF success
    THEN /\ measurement_stored' = [measurement_stored EXCEPT ![s] = TRUE]
         /\ status_queue' = status_callback(status_queue, "success")
         /\ UNCHANGED is_running
    ELSE UNCHANGED <<measurement_stored, status_queue, is_running>>

\* Mutant: emitting into a full queue raises queue.Full inside the handler,
\* so line 108 is not reached
AfterStore_FullQueueRaises(s, success) ==
    IF success
    THEN /\ measurement_stored' = [measurement_stored EXCEPT ![s] = TRUE]
         /\ status_queue' = status_callback(status_queue, "success")
         /\ is_running' = [is_running EXCEPT
                              ![s] = @ /\ Len(status_queue) = QueueMaxSize]
    ELSE UNCHANGED <<measurement_stored, status_queue, is_running>>

\* Mutant: the success event is emitted whatever the store answered
AfterStore_AlwaysAnnounces(s, success) ==
    IF success
    THEN /\ measurement_stored' = [measurement_stored EXCEPT ![s] = TRUE]
         /\ status_queue' = status_callback(status_queue, "success")
         /\ is_running' = [is_running EXCEPT ![s] = FALSE]
    ELSE /\ status_queue' = status_callback(status_queue, "success")
         /\ UNCHANGED <<measurement_stored, is_running>>

\* Lines 92-108: what the handler does with the store's answer
AfterStore(s, success) ==
    IF success
    THEN /\ measurement_stored' = [measurement_stored EXCEPT ![s] = TRUE]
         /\ status_queue' = status_callback(status_queue, "success")
         /\ is_running' = [is_running EXCEPT ![s] = FALSE]
    ELSE UNCHANGED <<measurement_stored, status_queue, is_running>>

\* Mutant: a sample that cannot be decoded ends the session
OnParseError_Aborts(s) ==
    /\ detector_result' = [detector_result EXCEPT ![s] = "NotCalled"]
    /\ status_queue' = status_callback(status_queue, "error")
    /\ is_running' = [is_running EXCEPT ![s] = FALSE]
    /\ UNCHANGED <<measurement_stored, detectorVars, store_calls, measurements>>

\* Lines 123-126: except Exception: the error is emitted, the sample dropped
OnParseError(s) ==
    /\ detector_result' = [detector_result EXCEPT ![s] = "NotCalled"]
    /\ status_queue' = status_callback(status_queue, "error")
    /\ UNCHANGED <<is_running, measurement_stored, detectorVars, store_calls,
                   measurements>>

\* The notification callback; the scale notifies over a live connection only
HandleMeasurement(s, data, store_ok) ==
    /\ pc[s] = "listening"
    /\ s \notin transport_lost
    /\ store_ok \/ store_calls[s] < MaxStoreFailures
    /\ IF HandlerIgnores(s)
       THEN /\ detector_result' = [detector_result EXCEPT ![s] = "NotCalled"]
            /\ UNCHANGED <<is_running, measurement_stored, detectorVars,
                           store_calls, status_queue, measurements>>
       ELSE IF ParseRaises(data)
       THEN OnParseError(s)
       ELSE LET measurement == parse_measurement_data(data)
                d == IsMeasurementStable(recent_readings[s], reading_timestamps[s],
                                         stable_start_time[s], measurement.weight, now)
            IN  /\ recent_readings' = [recent_readings EXCEPT ![s] = d.recent_readings]
                /\ reading_timestamps' =
                       [reading_timestamps EXCEPT ![s] = d.reading_timestamps]
                /\ stable_start_time' =
                       [stable_start_time EXCEPT ![s] = d.stable_start_time]
                /\ scenario_pos' = [scenario_pos EXCEPT
                                      ![s] = ScenarioNext(@, measurement.weight, now)]
                /\ IF d.result
                   THEN /\ detector_result' = [detector_result EXCEPT ![s] = "True"]
                        /\ store_calls' = [store_calls EXCEPT ![s] = @ + 1]
                        /\ measurements' = store_measurement(measurements,
                               measurement.weight, measurement.impedance, store_ok)
                        /\ AfterStore(s, store_ok)
                   ELSE /\ detector_result' = [detector_result EXCEPT ![s] = "False"]
                        /\ status_queue' = status_callback(status_queue, "progress")
                        /\ UNCHANGED <<is_running, measurement_stored, store_calls,
                                       measurements>>
    /\ UNCHANGED <<now, pc, appVars, envVars, current_status>>

----------------------------------------------------------------------------
(* extractor.py: run_extractor, and app.py: run_async around it *)

\* Mutant: the worker thread re-uses the extractor of the session before it
RunAsyncBegin_ReusesExtractor(s) ==
    LET prev == IF s = 1 THEN s ELSE s - 1
    IN  /\ pc[s] = "started"
        /\ pc' = [pc EXCEPT ![s] = "connecting"]
        /\ current_status' =
              [current_status EXCEPT !.is_running = TRUE, !.error = None]
        /\ is_running' = [is_running EXCEPT ![s] = TRUE]
        /\ recent_readings' = [recent_readings EXCEPT ![s] = recent_readings[prev]]
        /\ reading_timestamps' =
              [reading_timestamps EXCEPT ![s] = reading_timestamps[prev]]
        /\ stable_start_time' =
              [stable_start_time EXCEPT ![s] = stable_start_time[prev]]
        /\ measurement_stored' =
              [measurement_stored EXCEPT ![s] = measurement_stored[prev]]
        /\ UNCHANGED <<now, appVars, envVars, status_queue, measurements,
                       detector_result, store_calls, scenario_pos>>

\* app.py lines 52-65.  The assignments to extractor_instance and
\* extractor_loop bind locals of run_async (the global statement of the
\* enclosing function does not reach it): the module globals are untouched.
RunAsyncBegin(s) ==
    /\ pc[s] = "started"
    /\ pc' = [pc EXCEPT ![s] = "connecting"]
    /\ current_status' = [current_status EXCEPT !.is_running = TRUE, !.error = None]
    /\ is_running' = [is_running EXCEPT ![s] = TRUE]
    /\ recent_readings' = [recent_readings EXCEPT ![s] = <<>>]
    /\ reading_timestamps' = [reading_timestamps EXCEPT ![s] = <<>>]
    /\ stable_start_time' = [stable_start_time EXCEPT ![s] = None]
    /\ measurement_stored' = [measurement_stored EXCEPT ![s] = FALSE]
    /\ UNCHANGED <<now, appVars, envVars, status_queue, measurements,
                   detector_result, store_calls, scenario_pos>>

\* extractor.py lines 130-144: the events of a scan that found the scale
ScanEvents(scan) == IF scan THEN <<"info", "success">> ELSE <<>>

\* extractor.py lines 153-183: discovery (when the address is the default
\* one), connection and subscription
RunExtractorConnect(s, scan, outcome) ==
    /\ pc[s] = "connecting"
    /\ outcome = "not_found" => scan
    /\ status_queue' = EmitAll(status_queue,
          CASE outcome = "not_found" -> <<"info", "error">>
            [] outcome = "failed"    -> ScanEvents(scan) \o <<"error", "info">>
            [] outcome = "connected" -> ScanEvents(scan) \o <<"success", "info", "info">>)
    /\ pc' = [pc EXCEPT ![s] = IF outcome = "connected" THEN "listening" ELSE "returned"]
    /\ UNCHANGED <<now, sessionVars, appVars, envVars, current_status, measurements>>

\* extractor.py lines 185-196: the loop sees is_running False, the client is
\* closed and the last event emitted
RunExtractorExit(s) ==
    /\ pc[s] = "listening"
    /\ ~is_running[s]
    /\ pc' = [pc EXCEPT ![s] = "returned"]
    /\ status_queue' = status_callback(status_queue, "info")
    /\ UNCHANGED <<now, sessionVars, appVars, envVars, current_status, measurements>>

\* The BLE connection to the scale drops while the session listens.  No
\* disconnected_callback is registered and the loop of lines 185-186 looks
\* at is_running only: nothing in the session changes.
Disconnect(s) ==
    /\ pc[s] = "listening"
    /\ s \notin transport_lost
    /\ transport_lost' = transport_lost \cup {s}
    /\ UNCHANGED <<now, pc, sessionVars, appVars, current_status, status_queue,
                   measurements, call_args, call_result>>

\* app.py lines 69-82
RunAsyncFinish(s) ==
    /\ pc[s] = "returned"
    /\ pc' = [pc EXCEPT ![s] = "dead"]
    /\ current_status' =
          [current_status EXCEPT
             !.last_measurement = IF get_recent_measurements(measurements) # <<>>
                                  THEN get_recent_measurements(measurements) ELSE @,
             !.is_running = FALSE]
    /\ UNCHANGED <<now, sessionVars, appVars, envVars, status_queue, measurements>>

is_alive(s) == pc[s] \in {"started", "connecting", "listening", "returned"}

----------------------------------------------------------------------------
(* app.py: the control surface *)

\* The profile fields a start request supplies; 0 and "" stand for a field
\* that is absent or falsy, which `or` replaces by the configured default
Ages == {0, -5, 30}
Heights == {0, -170, 178}
Genders == {"", "male", "Female", "other"}
SomeProfile == [age |-> 30, height_cm |-> 178, gender |-> "male"]
Profiles == {[SomeProfile EXCEPT !.age = a] : a \in Ages}
            \cup {[SomeProfile EXCEPT !.height_cm = h] : h \in Heights}
            \cup {[SomeProfile EXCEPT !.gender = g] : g \in Genders}

GENDER == "male"

\* Lines 126-138 (the address always has the default SCALE_MAC to fall back on)
ProfileAccepted(p) ==
    LET user_age == IF p.age = 0 THEN AGE ELSE p.age
        user_height == IF p.height_cm = 0 THEN HEIGHT_CM ELSE p.height_cm
        user_gender == IF p.gender = "" THEN GENDER ELSE p.gender
    IN  /\ ~(user_age = 0 \/ user_age <= 0)
        /\ ~(user_height = 0 \/ user_height <= 0)
        /\ ~(user_gender = "" \/ Lower(user_gender) \notin {"male", "female"})

ThreadAlive == extractor_thread # None /\ is_alive(extractor_thread[1])

\* Lines 107-109: a finished thread resets the status
StatusAfterThreadCheck ==
    IF extractor_thread # None /\ ~is_alive(extractor_thread[1])
    THEN [current_status EXCEPT !.is_running = FALSE, !.error = None]
    ELSE current_status

\* Lines 111-112
StartRejectedAsRunning == StatusAfterThreadCheck.is_running

\* Lines 141-148 and 168-172: the running flag of the instance the module
\* global names is cleared, and the loop the module global names is stopped.
\* Both globals are None unless something assigns them.
FlagsAfterStopSignal ==
    [s \in Sessions |-> IF extractor_instance = Some(s) THEN FALSE ELSE is_running[s]]

NewSession == CHOOSE s \in Sessions : pc[s] = "unborn" /\
                 \A r \in Sessions : pc[r] = "unborn" => s <= r

\* POST /api/start
StartMeasurement(profile) ==
    /\ current_status' = StatusAfterThreadCheck
    /\ IF StartRejectedAsRunning
       THEN /\ response' = <<"start", 400, "Measurement already in progress">>
            /\ UNCHANGED <<status_queue, pc, is_running, extractor_thread>>
       ELSE /\ status_queue' = <<>>
            /\ IF ~ProfileAccepted(profile)
               THEN /\ response' = <<"start", 400, "Valid profile is required">>
                    /\ UNCHANGED <<pc, is_running, extractor_thread>>
               ELSE /\ \E s \in Sessions : pc[s] = "unborn"
                    /\ is_running' = IF ThreadAlive THEN FlagsAfterStopSignal
                                     ELSE is_running
                    /\ pc' = [pc EXCEPT ![NewSession] = "started"]
                    /\ extractor_thread' = Some(NewSession)
                    /\ response' = <<"start", 200, "Measurement started">>
    /\ UNCHANGED <<now, recent_readings, reading_timestamps, stable_start_time,
                   measurement_stored, extractor_instance, extractor_loop,
                   measurements, detector_result, store_calls, stop_requested,
                   scenario_pos, envVars>>

\* Mutant: the stop request does not look at the status and always succeeds
StopMeasurement_AlwaysOk ==
    /\ is_running' = FlagsAfterStopSignal
    /\ current_status' = [current_status EXCEPT !.is_running = FALSE]
    /\ response' = <<"stop", 200, "Measurement stopped">>
    /\ stop_requested' = stop_requested \cup
          (IF extractor_thread = None THEN {} ELSE {extractor_thread[1]})
    /\ UNCHANGED <<now, pc, recent_readings, reading_timestamps, stable_start_time,
                   measurement_stored, extractor_thread, extractor_instance,
                   extractor_loop, status_queue, measurements, detector_result,
                   store_calls, scenario_pos, envVars>>

\* POST /api/stop
StopMeasurement ==
    /\ IF ~current_status.is_running
       THEN /\ response' = <<"stop", 400, "No measurement in progress">>
            /\ UNCHANGED <<is_running, current_status, stop_requested>>
       ELSE /\ is_running' = FlagsAfterStopSignal
            /\ current_status' = [current_status EXCEPT !.is_running = FALSE]
            /\ response' = <<"stop", 200, "Measurement stopped">>
            /\ stop_requested' = stop_requested \cup
                  (IF extractor_thread = None THEN {} ELSE {extractor_thread[1]})
    /\ UNCHANGED <<now, pc, recent_readings, reading_timestamps, stable_start_time,
                   measurement_stored, extractor_thread, extractor_instance,
                   extractor_loop, status_queue, measurements, detector_result,
                   store_calls, scenario_pos, envVars>>

\* GET /api/status/stream: a subscriber takes the oldest queued event
StreamStatus ==
    /\ status_queue # <<>>
    /\ status_queue' = Tail(status_queue)
    /\ UNCHANGED <<now, pc, sessionVars, appVars, envVars, current_status, measurements>>

\* parse_measurement_data(raw_data, age, height_cm, gender) called on a
\* 13-byte payload
ParserCall ==
    /\ call_args # None
    /\ call_result = None
    /\ call_result' =
          LET a == call_args[1]
          IN  Some(MeasurementRecord(parse_measurement_data(a.raw_data),
                                     a.profile.age, a.profile.height_cm,
                                     a.profile.gender))
    /\ UNCHANGED <<now, pc, sessionVars, appVars, current_status, status_queue,
                   measurements, transport_lost, call_args>>

\* step seconds pass
Tick(step, bound) ==
    /\ now + step <= bound
    /\ now' = now + step
    /\ UNCHANGED <<pc, sessionVars, appVars, envVars, current_status, status_queue,
                   measurements>>

----------------------------------------------------------------------------
(* Specifications *)

ConnectOutcomes == {"not_found", "failed", "connected"}

\* One weigh-in: the session of the first accepted start request; no
\* subscriber drains the status queue
Next ==
    \/ Tick(1, MaxTime)
    \/ \E p \in Profiles : extractor_thread = None /\ StartMeasurement(p)
    \/ \E s \in Sessions : RunAsyncBegin(s)
    \/ \E s \in Sessions, scan \in BOOLEAN, o \in ConnectOutcomes :
          RunExtractorConnect(s, scan, o)
    \/ \E s \in Sessions, data \in Payloads(RawWeights), ok \in BOOLEAN :
          HandleMeasurement(s, data, ok)
    \/ \E s \in Sessions : RunExtractorExit(s)
    \/ \E s \in Sessions : RunAsyncFinish(s)

Spec == Init /\ [][Next]_vars

\* The control surface with every interleaving of requests and worker
\* threads.  Every start request names the scale's address (no scan), the
\* scale sends well-formed payloads of one weight, time passes in steps of
\* the minimum stable duration and no subscriber drains the status queue
NextApp ==
    \/ Tick(MIN_STABLE_DURATION_SECONDS, AppMaxTime)
    \/ \E p \in Profiles : StartMeasurement(p)
    \/ StopMeasurement
    \/ \E s \in Sessions : RunAsyncBegin(s)
    \/ \E s \in Sessions, scan \in {FALSE}, o \in ConnectOutcomes :
          RunExtractorConnect(s, scan, o)
    \/ \E s \in Sessions, data \in AppPayloads, ok \in BOOLEAN :
          HandleMeasurement(s, data, ok)
    \/ \E s \in Sessions : RunExtractorExit(s)
    \/ \E s \in Sessions : RunAsyncFinish(s)

SpecApp == Init /\ [][NextApp]_vars

\* The control surface around one weigh-in: the session of the first accepted
\* start request and stop requests at any time; the scale sends payloads of
\* one weight, well-formed or short
NextControl ==
    \/ Tick(1, AppMaxTime)
    \/ \E p \in Profiles : extractor_thread = None /\ StartMeasurement(p)
    \/ StopMeasurement
    \/ \E s \in Sessions : RunAsyncBegin(s)
    \/ \E s \in Sessions, scan \in BOOLEAN, o \in ConnectOutcomes :
          RunExtractorConnect(s, scan, o)
    \/ \E s \in Sessions, data \in Payloads(AppRawWeights), ok \in BOOLEAN :
          HandleMeasurement(s, data, ok)
    \/ \E s \in Sessions : RunExtractorExit(s)
    \/ \E s \in Sessions : RunAsyncFinish(s)

SpecControl == Init /\ [][NextControl]_vars

\* One weigh-in in which the scale first delivers the samples of Scenario, at
\* the times Scenario gives, and anything afterwards
NextScenario ==
    \/ Tick(1, ScenarioMaxTime)
    \/ \E p \in Profiles : extractor_thread = None /\ StartMeasurement(p)
    \/ \E s \in Sessions : RunAsyncBegin(s)
    \/ \E s \in Sessions, scan \in BOOLEAN, o \in ConnectOutcomes :
          RunExtractorConnect(s, scan, o)
    \/ \E s \in Sessions, data \in Payloads(ScenarioRawWeights), ok \in BOOLEAN :
          HandleMeasurement(s, data, ok) /\ scenario_pos'[s] # ScenarioOff
    \/ \E s \in Sessions : RunExtractorExit(s)
    \/ \E s \in Sessions : RunAsyncFinish(s)

SpecScenario == Init /\ [][NextScenario]_vars

\* One weigh-in during which the connection to the scale may drop and a
\* subscriber may take queued events.  The worker thread is scheduled: the
\* loop of run_extractor polls is_running every second and run_async
\* continues when run_extractor returns
NextLive ==
    \/ Tick(1, AppMaxTime)
    \/ \E p \in Profiles : extractor_thread = None /\ StartMeasurement(p)
    \/ \E s \in Sessions : RunAsyncBegin(s)
    \/ \E s \in Sessions, scan \in BOOLEAN, o \in ConnectOutcomes :
          RunExtractorConnect(s, scan, o)
    \/ \E s \in Sessions, data \in Payloads(AppRawWeights), ok \in BOOLEAN :
          HandleMeasurement(s, data, ok)
    \/ \E s \in Sessions : Disconnect(s)
    \/ \E s \in Sessions : RunExtractorExit(s)
    \/ \E s \in Sessions : RunAsyncFinish(s)
    \/ StreamStatus

ThreadScheduled ==
    \A s \in Sessions : WF_vars(RunExtractorExit(s)) /\ WF_vars(RunAsyncFinish(s))

SpecLive == Init /\ [][NextLive]_vars /\ ThreadScheduled

\* parse_measurement_data as a function: one call on each of ParserInputs
InitParser ==
    /\ ProgramInit
    /\ call_args \in {Some(a) : a \in ParserInputs}
    /\ call_result = None

NextParser == ParserCall

SpecParser == InitParser /\ [][NextParser]_vars

\* One weigh-in with a subscriber of the status stream, who may take queued
\* events at any time or not at all; store writes succeed
NextStream ==
    \/ Tick(1, AppMaxTime)
    \/ \E p \in Profiles : extractor_thread = None /\ StartMeasurement(p)
    \/ \E s \in Sessions : RunAsyncBegin(s)
    \/ \E s \in Sessions, scan \in BOOLEAN, o \in ConnectOutcomes :
          RunExtractorConnect(s, scan, o)
    \/ \E s \in Sessions, data \in Payloads(AppRawWeights) :
          HandleMeasurement(s, data, TRUE)
    \/ \E s \in Sessions : RunExtractorExit(s)
    \/ \E s \in Sessions : RunAsyncFinish(s)
    \/ StreamStatus

SpecStream == Init /\ [][NextStream]_vars

\* Sessions following one another or overlapping: start requests with a
\* valid profile at any time, a scale that is found at its address and sends
\* well-formed payloads of one weight, store writes that succeed
NextSessions ==
    \/ Tick(MIN_STABLE_DURATION_SECONDS, AppMaxTime)
    \/ StartMeasurement(SomeProfile)
    \/ \E s \in Sessions : RunAsyncBegin(s)
    \/ \E s \in Sessions : RunExtractorConnect(s, FALSE, "connected")
    \/ \E s \in Sessions, data \in AppPayloads : HandleMeasurement(s, data, TRUE)
    \/ \E s \in Sessions : RunExtractorExit(s)
    \/ \E s \in Sessions : RunAsyncFinish(s)

SpecSessions == Init /\ [][NextSessions]_vars

\* One weigh-in of a scale found at its address, whose samples are
\* well-formed and carry different impedances
NextStore ==
    \/ Tick(1, MaxTime)
    \/ extractor_thread = None /\ StartMeasurement(SomeProfile)
    \/ \E s \in Sessions : RunAsyncBegin(s)
    \/ \E s \in Sessions : RunExtractorConnect(s, FALSE, "connected")
    \/ \E s \in Sessions, data \in StorePayloads, ok \in BOOLEAN :
          HandleMeasurement(s, data, ok)
    \/ \E s \in Sessions : RunExtractorExit(s)
    \/ \E s \in Sessions : RunAsyncFinish(s)

SpecStore == Init /\ [][NextStore]_vars

----------------------------------------------------------------------------
(* Properties *)

\* The step is a handler call in which _is_measurement_stable returned True
StableReturned(s) ==
    detector_result'[s] = "True" /\ store_calls'[s] = store_calls[s] + 1

\* The step is a handler call whose store write failed
WriteFailed(s) == StableReturned(s) /\ measurements' = measurements

Spread(readings) == SeqMax(readings) - SeqMin(readings)

\* C1: within one session at most one finalized measurement is handed to
\* the store (store_measurement is called at most once), whatever
\* notifications arrive.
C1_AtMostOneHandedToStore == \A s \in Sessions : store_calls[s] <= 1

\* C2: the detector returns Stable on an ingest only if the window then
\* holds exactly N samples with spread <= tolerance, the clock was set
\* before this ingest (and is kept by it), and now - clock >= the minimum
\* stable duration.
C2_StableOnlyWhenConverged ==
    [][\A s \in Sessions : StableReturned(s) =>
          /\ Len(recent_readings'[s]) = STABLE_READINGS_REQUIRED
          /\ Spread(recent_readings'[s]) <= WEIGHT_TOLERANCE_RAW
          /\ stable_start_time[s] # None
          /\ stable_start_time'[s] = stable_start_time[s]
          /\ now - stable_start_time[s][1] >= MIN_STABLE_DURATION_SECONDS]_vars

\* A session whose detector has returned Stable, on a window in tolerance
\* whose clock is at least the minimum duration old
C2_Witness ==
    \E s \in Sessions :
        /\ detector_result[s] = "True"
        /\ Len(recent_readings[s]) = STABLE_READINGS_REQUIRED
        /\ Spread(recent_readings[s]) = WEIGHT_TOLERANCE_RAW
        /\ now - stable_start_time[s][1] = MIN_STABLE_DURATION_SECONDS

\* C3: the detector returns Stable exactly once per session: a session in
\* which it has returned Stable never sees it return Stable again.
C3_StableExactlyOnce ==
    [][\A s \in Sessions :
          detector_result'[s] = "True" /\ store_calls'[s] # store_calls[s]
              => store_calls[s] = 0]_vars

ScenarioDone(s) == scenario_pos[s] = Len(Scenario)
ScenarioRestart == Scenario[Len(Scenario)][2]

\* C4: in the drift example (N=3, tolerance 0.1, minimum duration 3 s;
\* 70.0, 70.05, 70.02 with the third at t=0, 75.0 at t=1, 70.0 at t=2,3,4)
\* the third sample sets the clock to 0, the out-of-tolerance sample clears
\* it, it stays unset until the ingest at t=4 sets it to 4, and Stable is
\* not returned before t=7, whatever arrives after the example.
C4_DriftRestartsDuration ==
    \A s \in Sessions :
        /\ scenario_pos[s] = 3 => stable_start_time[s] = Some(0)
        /\ scenario_pos[s] \in 4..(Len(Scenario) - 1) => stable_start_time[s] = None
        /\ ScenarioDone(s) =>
              /\ reading_timestamps[s] = <<2, 3, 4>>
                    => stable_start_time[s] = Some(ScenarioRestart)
              /\ stable_start_time[s] # None
                    => stable_start_time[s][1] >= ScenarioRestart
              /\ store_calls[s] > 0
                    => now >= ScenarioRestart + MIN_STABLE_DURATION_SECONDS
        /\ scenario_pos[s] \in 1..(Len(Scenario) - 1) => store_calls[s] = 0

\* The example has been delivered and Stable is returned at t=7
C4_Witness ==
    \E s \in Sessions :
        /\ ScenarioDone(s)
        /\ detector_result[s] = "True"
        /\ now = ScenarioRestart + MIN_STABLE_DURATION_SECONDS

\* C5: when the store write fails after a Stable decision, an error event
\* is emitted, the session ends (its running flag is cleared) and the write
\* is never retried (the handler ignores every later sample).
C5_FailedWriteEndsSession ==
    [][\A s \in Sessions : WriteFailed(s) =>
          /\ status_queue' = status_callback(status_queue, "error")
          /\ ~is_running'[s]
          /\ HandlerIgnores(s)']_vars

ShortPayloads == {data \in Payloads(RawWeights) : Len(data) < 13}

\* C6: a payload shorter than 13 bytes handled by a session that has not
\* finalized emits an error event, leaves the window, the clock, the
\* finalized flag and the running flag unchanged, and leaves the session
\* listening.
C6_ShortPayloadDropped ==
    [][\A s \in Sessions, data \in ShortPayloads :
          (/\ ~measurement_stored[s]
           /\ HandleMeasurement(s, data, TRUE))
          => /\ status_queue' = status_callback(status_queue, "error")
             /\ UNCHANGED <<recent_readings, reading_timestamps, stable_start_time,
                            measurement_stored, is_running, store_calls,
                            measurements>>
             /\ pc'[s] = "listening"]_vars

\* A listening session that holds samples, has had a short payload rejected
\* (the error event is queued) and is still running
C6_Witness ==
    \E s \in Sessions :
        /\ pc[s] = "listening"
        /\ is_running[s]
        /\ recent_readings[s] # <<>>
        /\ status_queue # <<>>
        /\ status_queue[Len(status_queue)] = "error"

\* C7: at most one session is live (listening to the scale) at any time.
C7_AtMostOneLiveSession ==
    Cardinality({s \in Sessions : pc[s] = "listening"}) <= 1

StopAccepted == StopMeasurement /\ current_status.is_running

\* C8: an accepted stop clears the running flag of the session that is
\* running, and a session that was stopped never calls the store afterwards.
C8_StopTerminatesSession ==
    [][/\ StopAccepted =>
             \A s \in Sessions :
                 extractor_thread = Some(s) /\ is_alive(s) => ~is_running'[s]
       /\ \A s \in stop_requested : store_calls'[s] = store_calls[s]]_vars

\* C9 as written: every stop request returns success.
C9_StopAlwaysSucceeds ==
    [][StopMeasurement => response'[2] = 200]_vars

\* C9 as amended: a stop request succeeds exactly when the status reports a
\* measurement in progress and is rejected otherwise; after it the status
\* reports not running, and a stop that finds the status not running (a
\* second stop) changes nothing but the response.
C9_StopIdempotentOnState ==
    [][StopMeasurement =>
          /\ (response'[2] = 200) <=> current_status.is_running
          /\ (response'[2] = 400) <=> ~current_status.is_running
          /\ ~current_status'.is_running
          /\ ~current_status.is_running =>
                UNCHANGED <<now, pc, sessionVars, extractor_thread,
                            extractor_instance, extractor_loop, stop_requested,
                            current_status, status_queue, measurements>>]_vars

\* A stop rejected after an earlier stop was accepted
C9_Witness ==
    /\ stop_requested # {}
    /\ response = <<"stop", 400, "No measurement in progress">>

StartAccepted == extractor_thread' # extractor_thread

Active(s) == pc[s] \in {"started", "connecting", "listening"}

\* C10: a start request is accepted only when every earlier session has
\* finished or was explicitly stopped; while a session is active and not
\* stopped no request is accepted and no session is created.
C10_StartRejectedWhileActive ==
    [][\A s \in Sessions : Active(s) /\ s \notin stop_requested =>
          ~StartAccepted]_vars

\* C11: a start request is accepted only when the supplied age and height
\* are > 0 and the supplied gender is male or female; a request supplying
\* an age or height that is not > 0, or another gender, is rejected and no
\* session is created.
C11_InvalidProfileRejected ==
    [][\A p \in Profiles : StartMeasurement(p) /\ StartAccepted =>
          /\ p.age > 0
          /\ p.height_cm > 0
          /\ Lower(p.gender) \in {"male", "female"}]_vars

\* The step is a handler call in which Stable was returned and the row written
FinalizedStep(s) == StableReturned(s) /\ measurements' # measurements

\* C12: on a Stable result whose store write succeeds the stored flag is
\* set, a success event is emitted and the running flag is cleared; the
\* loop then exits, the worker thread ends and the status reports not
\* running.
C12_FinalizeEndsSession ==
    /\ [][\A s \in Sessions : FinalizedStep(s) =>
             /\ measurement_stored'[s]
             /\ status_queue' = status_callback(status_queue, "success")
             /\ ~is_running'[s]]_vars
    /\ \A s \in Sessions :
           measurement_stored[s] ~> (pc[s] = "dead" /\ ~current_status.is_running)

\* A session that finalized and whose thread has ended, the status showing
\* the stored row and not running
C12_Witness ==
    \E s \in Sessions :
        /\ measurement_stored[s]
        /\ pc[s] = "dead"
        /\ ~current_status.is_running
        /\ current_status.last_measurement # None

\* C13: a session whose connection to the scale is lost is aborted: its
\* loop terminates and its worker thread returns.
C13_TransportFailureAborts ==
    \A s \in Sessions : (s \in transport_lost) ~> (pc[s] \in {"returned", "dead"})

\* C14: a 13-byte payload carrying raw weight w and impedance i, both
\* little-endian, decodes to impedance i and weight w/200 (w in the raw
\* unit); 14000 is 70.00 kg.
C14_DecoderRoundTrip ==
    \A w \in ParserWeights, i \in ParserImpedances :
        (/\ call_result # None
         /\ call_args[1].raw_data = Payload(MIN_PAYLOAD_LENGTH, w, i))
        => /\ call_result[1].weight = w
           /\ call_result[1].impedance = i
           /\ w = 14000 => call_result[1].weight = 70 * WEIGHT_DIVISOR

\* The 70.00 kg / 500 ohm payload has been decoded to 14000 units and 500
C14_Witness ==
    /\ call_result # None
    /\ call_args[1].raw_data = Payload(MIN_PAYLOAD_LENGTH, 14000, 500)
    /\ call_result[1].weight = 14000
    /\ call_result[1].impedance = 500

\* |q - target| <= tol, target and tol in thousandths
Within(q, target_milli, tol_milli) ==
    Abs(1000 * q.num - target_milli * q.den) <= tol_milli * q.den

\* parse_measurement_data has returned for weight=70, height=178, age=30, male
ExampleCall ==
    /\ call_result # None
    /\ call_result[1].weight = 70 * WEIGHT_DIVISOR
    /\ call_result[1].height_cm = 178
    /\ call_result[1].age = 30
    /\ call_result[1].gender = "male"

\* C15 as written: for weight=70, height=178, age=30, male the metrics are
\* bmi 22.094, bmr 1681.5 and body_fat 15.83, each within 0.01.
C15_MetricsAsWritten ==
    ExampleCall =>
        /\ Within(call_result[1].bmi, 22094, 10)
        /\ Within(call_result[1].bmr, 1681500, 10)
        /\ Within(call_result[1].body_fat, 15830, 10)

\* C15 as amended: for weight=70, height=178, age=30, male the metrics are
\* bmi 22.093, bmr 1667.5 and body_fat 17.21, each within 0.01.
C15_MetricsOfExample ==
    ExampleCall =>
        /\ Within(call_result[1].bmi, 22093, 10)
        /\ Within(call_result[1].bmr, 1667500, 10)
        /\ Within(call_result[1].body_fat, 17210, 10)

\* The example has been computed; its bmr is 3335/2
C15_Witness ==
    /\ ExampleCall
    /\ call_result[1].bmr = [num |-> 3335, den |-> 2]

MostRecent(seq, n) ==
    IF Len(seq) <= n THEN seq ELSE SubSeq(seq, Len(seq) - n + 1, Len(seq))

\* The first k samples of Scenario: their weights (field 1) or times (field 2)
ScenarioPrefix(k, field) == [j \in 1..k |-> Scenario[j][field]]

\* C16: the window never holds more than N weights, the timestamp list has
\* the length of the weight list, and after k ingests (here the first k
\* samples of Scenario) both hold the most recent min(k, N) of them in
\* arrival order.
C16_WindowBound ==
    \A s \in Sessions :
        /\ Len(recent_readings[s]) <= STABLE_READINGS_REQUIRED
        /\ Len(reading_timestamps[s]) = Len(recent_readings[s])
        /\ scenario_pos[s] \in 0..(Len(Scenario) - 1) =>
              /\ recent_readings[s] =
                    MostRecent(ScenarioPrefix(scenario_pos[s], 1),
                               STABLE_READINGS_REQUIRED)
              /\ reading_timestamps[s] =
                    MostRecent(ScenarioPrefix(scenario_pos[s], 2),
                               STABLE_READINGS_REQUIRED)

\* Five samples ingested: the two oldest have been evicted
C16_Witness ==
    \E s \in Sessions :
        /\ scenario_pos[s] = 5
        /\ recent_readings[s] = <<14004, 15000, 14000>>
        /\ reading_timestamps[s] = <<0, 1, 2>>

StreamPayloads == Payloads(AppRawWeights)

\* What a handler call does to its session, from the session's own state,
\* the sample and the store's answer; the status queue is not consulted
HandlerOutcome(s, data, store_ok) ==
    LET d == IsMeasurementStable(recent_readings[s], reading_timestamps[s],
                 stable_start_time[s], parse_measurement_data(data).weight, now)
        called == ~measurement_stored[s] /\ ~ParseRaises(data)
        stable == called /\ d.result
    IN  [detector_result    |-> IF ~called THEN "NotCalled"
                                ELSE IF d.result THEN "True" ELSE "False",
         store_calls        |-> store_calls[s] + (IF stable THEN 1 ELSE 0),
         measurement_stored |-> measurement_stored[s] \/ (stable /\ store_ok),
         is_running         |-> is_running[s] /\ ~(stable /\ store_ok),
         recent_readings    |-> IF called THEN d.recent_readings
                                ELSE recent_readings[s],
         stable_start_time  |-> IF called THEN d.stable_start_time
                                ELSE stable_start_time[s]]

\* C17: emitting a status event never blocks the handler or the loop, and
\* the detector result, the store write and the end of the session are the
\* same whatever the status queue holds: room, full, drained or not.
C17_EmissionNeverAffectsSession ==
    /\ [](\A s \in Sessions :
            /\ pc[s] = "listening" =>
                  \A data \in StreamPayloads : ENABLED HandleMeasurement(s, data, TRUE)
            /\ pc[s] = "listening" /\ ~is_running[s] => ENABLED RunExtractorExit(s))
    /\ [][\A s \in Sessions, data \in StreamPayloads :
             HandleMeasurement(s, data, TRUE) =>
                 LET o == HandlerOutcome(s, data, TRUE)
                 IN  /\ detector_result'[s] = o.detector_result
                     /\ store_calls'[s] = o.store_calls
                     /\ measurement_stored'[s] = o.measurement_stored
                     /\ is_running'[s] = o.is_running
                     /\ recent_readings'[s] = o.recent_readings
                     /\ stable_start_time'[s] = o.stable_start_time
                     /\ measurements' # measurements
                            <=> o.detector_result = "True"]_vars

\* A session that finalized while the queue was full: the row is stored, the
\* session is told to stop, and the last queued event is still the one of
\* the connection
C17_Witness ==
    \E s \in Sessions :
        /\ pc[s] = "listening"
        /\ measurement_stored[s]
        /\ ~is_running[s]
        /\ measurements # <<>>
        /\ Len(status_queue) = QueueMaxSize
        /\ status_queue[QueueMaxSize] = "info"

RemoveAt(seq, k) == SubSeq(seq, 1, k - 1) \o SubSeq(seq, k + 1, Len(seq))

\* C18: an event emitted while the status queue is full is retained and an
\* older event is discarded (here the success event of a finalization).
C18_NewestPreferred ==
    [][\A s \in Sessions :
          FinalizedStep(s) /\ Len(status_queue) = QueueMaxSize =>
              \E k \in 1..Len(status_queue) :
                  status_queue' = Append(RemoveAt(status_queue, k), "success")]_vars

\* C19: a worker thread starts its session with an empty window, an unset
\* clock and the stored flag false, and a sample handled by one session
\* leaves the window, the clock and the flag of every other session
\* unchanged.
C19_FreshSessionInstance ==
    [][\A s \in Sessions :
          /\ RunAsyncBegin(s) =>
                /\ recent_readings'[s] = <<>>
                /\ reading_timestamps'[s] = <<>>
                /\ stable_start_time'[s] = None
                /\ ~measurement_stored'[s]
          /\ \A r \in Sessions \ {s}, data \in AppPayloads :
                HandleMeasurement(r, data, TRUE) =>
                    UNCHANGED <<recent_readings[s], reading_timestamps[s],
                                stable_start_time[s], measurement_stored[s]>>]_vars

\* Two sessions listening at once: the earlier one has ingested a sample at
\* t=3, after the later one ingested its only sample at t=0
C19_Witness ==
    \E s, r \in Sessions :
        /\ s < r
        /\ pc[s] = "listening" /\ pc[r] = "listening"
        /\ reading_timestamps[r] = <<0>>
        /\ Len(reading_timestamps[s]) > 1
        /\ reading_timestamps[s][Len(reading_timestamps[s])] = 3

\* C20: once the stored flag of a session is set, a notification changes
\* neither the window, the clock, the flag nor the running flag, the
\* detector and the store are not called and no event is emitted.
C20_FinalizedIgnoresSamples ==
    [][\A s \in Sessions, data \in Payloads(RawWeights) :
          measurement_stored[s] /\ HandleMeasurement(s, data, TRUE) =>
              /\ UNCHANGED <<recent_readings, reading_timestamps,
                             stable_start_time, measurement_stored, is_running,
                             store_calls, measurements, status_queue>>
              /\ detector_result'[s] = "NotCalled"]_vars

\* A finalized session, still listening, whose last notification was ignored
C20_Witness ==
    \E s \in Sessions :
        /\ pc[s] = "listening"
        /\ measurement_stored[s]
        /\ store_calls[s] = 1
        /\ detector_result[s] = "NotCalled"

FullPayloads == {data \in Payloads(RawWeights) : Len(data) = MIN_PAYLOAD_LENGTH}

\* The step is a handler call that reaches the detector
Ingests(s) ==
    /\ ~measurement_stored[s]
    /\ \E data \in FullPayloads, ok \in BOOLEAN : HandleMeasurement(s, data, ok)

\* A full window whose spread is at most the tolerance
InTolerance(readings) ==
    /\ Len(readings) = STABLE_READINGS_REQUIRED
    /\ Spread(readings) <= WEIGHT_TOLERANCE_RAW

\* C21: an ingest that finds a full, in-tolerance window with the clock
\* unset sets the clock to now and returns not-final; Stable is never
\* returned by an ingest that found the clock unset or the window not yet
\* full (whatever the minimum duration); and while the window stays in
\* tolerance the clock keeps its value.
C21_ClockSetThenStable ==
    [][\A s \in Sessions : Ingests(s) =>
          /\ stable_start_time[s] = None /\ InTolerance(recent_readings'[s]) =>
                /\ stable_start_time'[s] = Some(now)
                /\ detector_result'[s] = "False"
          /\ stable_start_time[s] = None =>
                /\ ~StableReturned(s)
                /\ ~ResultAfter_NoDurationCheck(recent_readings'[s],
                                                stable_start_time[s], now)
          /\ Len(recent_readings[s]) < STABLE_READINGS_REQUIRED =>
                ~StableReturned(s)
          /\ stable_start_time[s] # None /\ InTolerance(recent_readings'[s]) =>
                stable_start_time'[s] = stable_start_time[s]]_vars

\* C22: a full window whose spread equals the tolerance exactly is stable:
\* its clock is set.
C22_InclusiveBoundary ==
    \A s \in Sessions :
        (/\ Len(recent_readings[s]) = STABLE_READINGS_REQUIRED
         /\ Spread(recent_readings[s]) = WEIGHT_TOLERANCE_RAW)
        => stable_start_time[s] # None

\* C23: the clock is set only if the window is full and its spread is at
\* most the tolerance.
C23_ClockOnlyOnStableWindow ==
    \A s \in Sessions :
        stable_start_time[s] # None => InTolerance(recent_readings[s])

\* The clock is running on a window at the edge of the tolerance, and the
\* detector has not returned Stable yet
C23_Witness ==
    \E s \in Sessions :
        /\ stable_start_time[s] # None
        /\ Spread(recent_readings[s]) = WEIGHT_TOLERANCE_RAW
        /\ detector_result[s] = "False"
        /\ store_calls[s] = 0

\* C24: the row handed to the store carries the weight and the impedance
\* of the sample whose ingest returned Stable, which is the newest sample
\* of the window and within the tolerance of every weight in the window.
C24_StoredSampleIsNewest ==
    [][\A s \in Sessions, w \in RawWeights, i \in StoreImpedances :
          (/\ HandleMeasurement(s, Payload(MIN_PAYLOAD_LENGTH, w, i), TRUE)
           /\ FinalizedStep(s))
          => LET row == measurements'[Len(measurements')]
                 window == recent_readings'[s]
             IN  /\ Len(measurements') = Len(measurements) + 1
                 /\ row.weight = w
                 /\ row.impedance = i
                 /\ window[Len(window)] = w
                 /\ \A k \in 1..Len(window) :
                       Abs(row.weight - window[k]) <= WEIGHT_TOLERANCE_RAW]_vars

\* 70.10 kg / 510 ohm stored after two samples of 70.00 kg: the newest
\* sample, not the oldest or the mean
C24_Witness ==
    \E s \in Sessions :
        /\ measurement_stored[s]
        /\ recent_readings[s] = <<14000, 14000, 14020>>
        /\ measurements # <<>>
        /\ measurements[Len(measurements)].weight = 14020
        /\ measurements[Len(measurements)].impedance = 510

\* The step is one of the handler of s that queues a success event (the
\* success event of the connection is queued by a step that changes pc)
AnnouncesStored(s) ==
    /\ pc[s] = "listening"
    /\ pc'[s] = "listening"
    /\ Len(status_queue') = Len(status_queue) + 1
    /\ status_queue'[Len(status_queue')] = "success"

\* C25: the handler queues a success event only in a call whose store write
\* succeeded and which sets the stored flag; a call whose write failed
\* queues nothing; the running flag is cleared only with the stored flag
\* set; a session whose flag is set has a row in the store.
C25_SuccessOnlyAfterWrite ==
    /\ [][\A s \in Sessions :
             /\ AnnouncesStored(s) =>
                   /\ Len(measurements') = Len(measurements) + 1
                   /\ measurement_stored'[s]
             /\ WriteFailed(s) =>
                   UNCHANGED <<status_queue, is_running, measurement_stored>>
             /\ is_running[s] /\ ~is_running'[s] => measurement_stored'[s]]_vars
    /\ [](\A s \in Sessions : measurement_stored[s] => measurements # <<>>)

\* A session whose first write failed and whose second succeeded: one row,
\* the success event queued last, the session told to stop
C25_Witness ==
    \E s \in Sessions :
        /\ pc[s] = "listening"
        /\ store_calls[s] = 2
        /\ Len(measurements) = 1
        /\ measurement_stored[s]
        /\ ~is_running[s]
        /\ status_queue # <<>>
        /\ status_queue[Len(status_queue)] = "success"

====
